---- MODULE Spec2Model ----
(***************************************************************************)
(* Community Help Request Management System (src/app.py).                  *)
(*                                                                         *)
(* Text values (form fields, descriptions, emails, keywords) are sequences *)
(* of one-character strings, so that str.lower, str.strip and the          *)
(* substring test `keyword in text` are computed character by character.   *)
(***************************************************************************)
EXTENDS Integers, Sequences, FiniteSets

VARIABLES
    help_requests,  \* table help_requests: sequence of rows, in id order
    volunteers,     \* table volunteers: sequence of rows, in id order
    session,        \* per client: the Flask session (signed cookie) contents
    pc,             \* per client: where its request in flight stands ("idle": none)
    local,          \* per client: the local variables of its request in flight
    response,       \* what the last step sent, and to which client (NoResponse: nothing)
    ops,            \* number of HTTP requests received so far
    open_connections, \* sqlite3 connections opened by get_db() and not closed
    text_in,        \* classifier harness: the description handed to predict_urgency
    urgency_out     \* classifier harness: the value predict_urgency returned ("" before the call)

vars == <<help_requests, volunteers, session, pc, local, response, ops, open_connections,
          text_in, urgency_out>>

store == <<help_requests, volunteers>>

harness == <<text_in, urgency_out>>

----------------------------------------------------------------------------
(* Bounds of the model.                                                    *)

MaxRequests == 2    \* help_requests rows

MaxVolunteers == 2  \* volunteers rows

MaxOps == 3         \* HTTP requests received

MaxFragments == 3   \* fragments concatenated into a classifier input

Sessions == {"s1", "s2"}

----------------------------------------------------------------------------
(* Text helpers: Python str methods on character sequences.                *)

UpperAlpha ==
    <<"A","B","C","D","E","F","G","H","I","J","K","L","M","N","O","P","Q","R","S","T","U","V","W","X","Y","Z">>

LowerAlpha ==
    <<"a","b","c","d","e","f","g","h","i","j","k","l","m","n","o","p","q","r","s","t","u","v","w","x","y","z">>

\* str.lower() on one character (ASCII letters; every other character is kept)
LowerChar(c) ==
    IF \E i \in 1..26 : UpperAlpha[i] = c
    THEN LowerAlpha[CHOOSE i \in 1..26 : UpperAlpha[i] = c]
    ELSE c

\* str.lower(): app.py:105
lower(s) ==
    [i \in 1..Len(s) |-> LowerChar(s[i])]

Whitespace == {" ", "\t", "\n"}

\* str.strip(): app.py:155-159, 252-254, 299, 350
strip(s) ==
    LET keep == {i \in 1..Len(s) : s[i] \notin Whitespace} IN
    IF keep = {} THEN <<>>
    ELSE SubSeq(s, CHOOSE i \in keep : \A j \in keep : i <= j,
                   CHOOSE i \in keep : \A j \in keep : i >= j)

\* Python's `keyword in text` on strings: app.py:130, app.py:135
Contains(keyword, text) ==
    \E i \in 1..(Len(text) - Len(keyword) + 1) :
        SubSeq(text, i, i + Len(keyword) - 1) = keyword

----------------------------------------------------------------------------
(* Rule-based urgency prediction: app.py:98-139                            *)

emergency_keywords ==
    << <<"a","c","c","i","d","e","n","t">>,
       <<"f","i","r","e">>,
       <<"b","l","o","o","d">>,
       <<"h","o","s","p","i","t","a","l">>,
       <<"u","n","c","o","n","s","c","i","o","u","s">>,
       <<"e","m","e","r","g","e","n","c","y">>,
       <<"u","r","g","e","n","t">>,
       <<"d","y","i","n","g">>,
       <<"c","o","l","l","a","p","s","e">>,
       <<"c","r","i","t","i","c","a","l">>,
       <<"a","m","b","u","l","a","n","c","e">>,
       <<"h","e","a","r","t"," ","a","t","t","a","c","k">>,
       <<"s","t","r","o","k","e">>,
       <<"d","r","o","w","n","i","n","g">>,
       <<"e","a","r","t","h","q","u","a","k","e">>,
       <<"f","l","o","o","d">>,
       <<"t","r","a","p","p","e","d">>,
       <<"s","e","v","e","r","e">>,
       <<"l","i","f","e","-","t","h","r","e","a","t","e","n","i","n","g">>,
       <<"c","h","o","k","i","n","g">>,
       <<"b","l","e","e","d","i","n","g">>,
       <<"i","n","j","u","r","y">>,
       <<"i","n","j","u","r","e","d">>,
       <<"w","o","u","n","d">>,
       <<"e","l","e","c","t","r","o","c","u","t","i","o","n">>,
       <<"p","o","i","s","o","n">>,
       <<"o","v","e","r","d","o","s","e">>,
       <<"s","u","i","c","i","d","e">>,
       <<"a","s","s","a","u","l","t">>,
       <<"v","i","o","l","e","n","c","e">>,
       <<"g","u","n","s","h","o","t">>,
       <<"s","t","a","b","b","i","n","g">>,
       <<"b","u","r","n","i","n","g">>,
       <<"e","x","p","l","o","s","i","o","n">> >>

medium_keywords_no_pain ==
    << <<"f","o","o","d">>,
       <<"m","e","d","i","c","i","n","e">>,
       <<"s","u","p","p","o","r","t">>,
       <<"n","e","e","d"," ","h","e","l","p">>,
       <<"a","s","s","i","s","t","a","n","c","e">>,
       <<"s","h","e","l","t","e","r">>,
       <<"c","l","o","t","h","e","s">>,
       <<"c","l","o","t","h","i","n","g">>,
       <<"w","a","t","e","r">>,
       <<"e","l","e","c","t","r","i","c","i","t","y">>,
       <<"m","e","d","i","c","a","l">>,
       <<"d","o","c","t","o","r">>,
       <<"p","r","e","s","c","r","i","p","t","i","o","n">>,
       <<"t","r","a","n","s","p","o","r","t">>,
       <<"r","e","p","a","i","r">>,
       <<"b","r","o","k","e","n">>,
       <<"l","e","a","k">>,
       <<"s","i","c","k">>,
       <<"i","l","l">>,
       <<"f","e","v","e","r">>,
       <<"h","o","m","e","l","e","s","s">>,
       <<"h","u","n","g","r","y">>,
       <<"s","t","r","a","n","d","e","d">>,
       <<"l","o","s","t">>,
       <<"d","i","s","a","b","l","e","d">>,
       <<"e","l","d","e","r","l","y">>,
       <<"c","h","i","l","d">>,
       <<"b","a","b","y">>,
       <<"p","r","e","g","n","a","n","t">>,
       <<"m","e","d","i","c","a","t","i","o","n">> >>

medium_keywords ==
    << <<"f","o","o","d">>,
       <<"m","e","d","i","c","i","n","e">>,
       <<"s","u","p","p","o","r","t">>,
       <<"n","e","e","d"," ","h","e","l","p">>,
       <<"a","s","s","i","s","t","a","n","c","e">>,
       <<"s","h","e","l","t","e","r">>,
       <<"c","l","o","t","h","e","s">>,
       <<"c","l","o","t","h","i","n","g">>,
       <<"w","a","t","e","r">>,
       <<"e","l","e","c","t","r","i","c","i","t","y">>,
       <<"m","e","d","i","c","a","l">>,
       <<"d","o","c","t","o","r">>,
       <<"p","r","e","s","c","r","i","p","t","i","o","n">>,
       <<"t","r","a","n","s","p","o","r","t">>,
       <<"r","e","p","a","i","r">>,
       <<"b","r","o","k","e","n">>,
       <<"l","e","a","k">>,
       <<"s","i","c","k">>,
       <<"i","l","l">>,
       <<"f","e","v","e","r">>,
       <<"p","a","i","n">>,
       <<"h","o","m","e","l","e","s","s">>,
       <<"h","u","n","g","r","y">>,
       <<"s","t","r","a","n","d","e","d">>,
       <<"l","o","s","t">>,
       <<"d","i","s","a","b","l","e","d">>,
       <<"e","l","d","e","r","l","y">>,
       <<"c","h","i","l","d">>,
       <<"b","a","b","y">>,
       <<"p","r","e","g","n","a","n","t">>,
       <<"m","e","d","i","c","a","t","i","o","n">> >>

\* The `for keyword in keywords: if keyword in text: return ...` loop,
\* from index i on: TRUE iff the loop returns at some keyword.
RECURSIVE AnyKeywordIn(_, _, _)
AnyKeywordIn(keywords, text, i) ==
    IF i > Len(keywords) THEN FALSE
    ELSE IF Contains(keywords[i], text) THEN TRUE
    ELSE AnyKeywordIn(keywords, text, i + 1)

\* (mutant): the medium list is scanned before the emergency list
predict_urgency_medium_first(description) ==
    LET text == lower(description) IN
    IF AnyKeywordIn(medium_keywords, text, 1) THEN "Medium"
    ELSE IF AnyKeywordIn(emergency_keywords, text, 1) THEN "Emergency"
    ELSE "Low"

\* (mutant): the description is scanned as typed, without .lower()
predict_urgency_no_lower(description) ==
    IF AnyKeywordIn(emergency_keywords, description, 1) THEN "Emergency"
    ELSE IF AnyKeywordIn(medium_keywords, description, 1) THEN "Medium"
    ELSE "Low"

\* (mutant): the top level is called "Critical"
predict_urgency_critical(description) ==
    LET text == lower(description) IN
    IF AnyKeywordIn(emergency_keywords, text, 1) THEN "Critical"
    ELSE IF AnyKeywordIn(medium_keywords, text, 1) THEN "Medium"
    ELSE "Low"

predict_urgency(description) ==
    LET text == lower(description) IN
    IF AnyKeywordIn(emergency_keywords, text, 1) THEN "Emergency"
    ELSE IF AnyKeywordIn(medium_keywords, text, 1) THEN "Medium"
    ELSE "Low"

----------------------------------------------------------------------------
(* Inputs: what a client may send.                                         *)

\* (mutant): the access code in lower case
ADMIN_ACCESS_CODE_lower ==
    <<"u","n","p","a","i","d">>

\* ADMIN_ACCESS_CODE = "UNPAID": app.py:27
ADMIN_ACCESS_CODE ==
    <<"U","N","P","A","I","D">>

\* session.get(...) of an absent key, and "" of an absent form field: both falsy
None == <<>>

BlankInputs == { <<>>, <<" "," ">> }

ValidName == <<" ","A","n","n"," ">>

ValidPhone == <<"5","5","5">>

ValidAddress == <<"1"," ","E","l","m">>

ValidCategory == <<"O","t","h","e","r">>

\* descriptions that predict_urgency classifies Emergency, Medium and Low
ValidDescriptions ==
    { <<" ","F","i","r","e","!">>, <<"F","o","o","d"," ">>, <<"f","e","n","c","e">> }

EmailInputs ==
    { <<>>, <<" ","a","@","x"," ">>, <<"A","@","x">>, <<"b","@","x">> }

\* the access_code field: empty, the code in the wrong case, and the code as
\* typed with blanks around it
AccessCodeInputs ==
    { <<>>, <<"u","n","p","a","i","d">>, <<" ","U","N","P","A","I","D"," ">> }

ValidSubmitForm(description) ==
    [name |-> ValidName, phone |-> ValidPhone, address |-> ValidAddress,
     category |-> ValidCategory, description |-> description]

\* the forms of POST /submit: complete ones, and ones with a field left blank
SubmitForms ==
    {ValidSubmitForm(d) : d \in ValidDescriptions}
    \cup {[ValidSubmitForm(<<"f","e","n","c","e">>) EXCEPT !.name = <<>>],
          [ValidSubmitForm(<<"f","e","n","c","e">>) EXCEPT !.phone = <<" ", " ">>],
          [ValidSubmitForm(<<"f","e","n","c","e">>) EXCEPT !.address = <<>>],
          [ValidSubmitForm(<<"f","e","n","c","e">>) EXCEPT !.category = <<" ", " ">>],
          [ValidSubmitForm(<<"f","e","n","c","e">>) EXCEPT !.description = <<" ", " ">>]}

\* the forms of POST /volunteer/register
RegisterForms ==
    {[name |-> ValidName, phone |-> ValidPhone, email |-> e] : e \in EmailInputs}
    \cup {[name |-> b, phone |-> ValidPhone, email |-> <<"b","@","x">>] : b \in BlankInputs}
    \cup {[name |-> ValidName, phone |-> b, email |-> <<"b","@","x">>] : b \in BlankInputs}

\* a GET carries no form; a POST carries one of the forms
RegisterRequests ==
    { <<"GET", [name |-> <<>>, phone |-> <<>>, email |-> <<>>]>> }
    \cup {<<"POST", form>> : form \in RegisterForms}

LoginRequests ==
    { <<"GET", <<>>>> } \cup {<<"POST", email>> : email \in EmailInputs}

AdminLoginRequests ==
    { <<"GET", <<>>>> } \cup {<<"POST", code>> : code \in AccessCodeInputs}

UrgencyFilters == {"all", "emergency"}

StatusFilters == {"all", "solved", "unsolved"}

\* the <int:request_id> of /admin/toggle/<id>: every stored id and one that is not
RequestIds == 1..(MaxRequests + 1)

----------------------------------------------------------------------------
(* Store queries (the SQL statements of app.py).                           *)

\* (mutant): any([...]) in place of all([...])
all_as_any(fields) ==
    \E i \in 1..Len(fields) : fields[i] # <<>>

\* Python's all([...]) over stripped strings: every one is non-empty
all(fields) ==
    \A i \in 1..Len(fields) : fields[i] # <<>>

\* SELECT MAX(id) as max_id FROM help_requests; `latest["max_id"]` falsy -> 0
max_id ==
    IF help_requests = <<>> THEN 0
    ELSE CHOOSE m \in {help_requests[i].id : i \in 1..Len(help_requests)} :
             \A i \in 1..Len(help_requests) : help_requests[i].id <= m

\* id INTEGER PRIMARY KEY AUTOINCREMENT: one more than the largest id so far
\* (rows are never deleted, so this is the largest stored id plus one)
NextId(table) ==
    Len(table) + 1

\* SELECT ... FROM volunteers WHERE email = ? (BINARY collation: exact match)
VolunteersWithEmail(email) ==
    {i \in 1..Len(volunteers) : volunteers[i].email = email}

\* SELECT * FROM volunteers WHERE LOWER(email) = LOWER(?)
get_volunteer_by_email(email) ==
    {i \in 1..Len(volunteers) : lower(volunteers[i].email) = lower(email)}

\* SELECT * FROM help_requests WHERE urgency = 'Emergency' AND id > ?
emergency_alerts(last_seen) ==
    {help_requests[i].id : i \in {j \in 1..Len(help_requests) :
        help_requests[j].urgency = "Emergency" /\ help_requests[j].id > last_seen}}

\* (mutant): the WHERE id = ? clause is missing
RowsWithId_any(request_id) ==
    {i \in 1..Len(help_requests) : TRUE}

\* SELECT solved_status FROM help_requests WHERE id = ?
RowsWithId(request_id) ==
    {i \in 1..Len(help_requests) : help_requests[i].id = request_id}

\* (mutant): the clauses are joined by OR
AdminQuery_or(urgency_filter, status_filter) ==
    {help_requests[i].id : i \in {j \in 1..Len(help_requests) :
        \/ (urgency_filter = "all" /\ status_filter = "all")
        \/ (urgency_filter = "emergency" /\ help_requests[j].urgency = "Emergency")
        \/ (status_filter = "solved" /\ help_requests[j].solved_status = "Solved")
        \/ (status_filter = "unsolved" /\ help_requests[j].solved_status = "Unsolved")}}

\* the WHERE clause admin() builds from its two filters
AdminQuery(urgency_filter, status_filter) ==
    {help_requests[i].id : i \in {j \in 1..Len(help_requests) :
        /\ (urgency_filter = "emergency" => help_requests[j].urgency = "Emergency")
        /\ (status_filter = "solved" => help_requests[j].solved_status = "Solved")
        /\ (status_filter = "unsolved" => help_requests[j].solved_status = "Unsolved")}}

\* (mutant): the status is set to Solved whatever it was
new_status_always_solved(solved_status) ==
    IF solved_status = "Unsolved" THEN "Solved" ELSE "Solved"

\* new_status = "Solved" if row["solved_status"] == "Unsolved" else "Unsolved"
new_status(solved_status) ==
    IF solved_status = "Unsolved" THEN "Solved" ELSE "Unsolved"

----------------------------------------------------------------------------
(* Responses.                                                              *)

NoLocal ==
    [name |-> None, phone |-> None, email |-> None, max_id |-> 0, last_seen |-> 0,
     request_id |-> 0,
     solved_status |-> "", requests |-> {}, urgency_filter |-> "", status_filter |-> ""]

\* kind: "render" (a template), "redirect" (to an endpoint), "error" (an unhandled
\* exception: HTTP 500), "" (no response yet)
Response(kind, target, category, flash) ==
    [session |-> "", kind |-> kind, target |-> target, category |-> category, flash |-> flash,
     requests |-> {}, alerts |-> {}, volunteer |-> None, volunteer_count |-> 0,
     urgency |-> "", urgency_filter |-> "", status_filter |-> ""]

NoResponse ==
    Response("", "", "", "")

render_template(template) ==
    Response("render", template, "", "")

redirect(endpoint, category, flash) ==
    Response("redirect", endpoint, category, flash)

NoSession ==
    [volunteer_email |-> None, volunteer_name |-> None,
     admin_logged_in |-> FALSE, admin_email |-> None, admin_name |-> None]

----------------------------------------------------------------------------
(* Request bookkeeping.                                                    *)

\* a client sends a new request once its previous one has been answered
Receive(s) ==
    /\ pc[s] = "idle"
    /\ ops < MaxOps
    /\ ops' = ops + 1

\* The handler returns `resp`. A handler that has come here from an earlier
\* step holds the connection it opened there and calls conn.close() before
\* returning; one that returns in its first step has closed whatever
\* connection it opened in that step.
Return(s, resp) ==
    /\ pc' = [pc EXCEPT ![s] = "idle"]
    /\ local' = [local EXCEPT ![s] = NoLocal]
    /\ response' = [resp EXCEPT !.session = s]
    /\ open_connections' = IF pc[s] = "idle" THEN open_connections
                                             ELSE open_connections - 1

\* The handler goes on to its next statement at `label`, with locals `l`. Every
\* such statement runs on the handler's connection: conn = get_db() is part of
\* the handler's first step.
Goto(s, label, l) ==
    /\ pc' = [pc EXCEPT ![s] = label]
    /\ local' = [local EXCEPT ![s] = l]
    /\ response' = NoResponse
    /\ open_connections' = IF pc[s] = "idle" THEN open_connections + 1
                                             ELSE open_connections

\* A statement raises an exception that no handler catches: Flask answers with
\* `resp`, and the statements after the failing one, conn.close() among them,
\* are not executed.
Raise(s, resp) ==
    /\ pc' = [pc EXCEPT ![s] = "idle"]
    /\ local' = [local EXCEPT ![s] = NoLocal]
    /\ response' = [resp EXCEPT !.session = s]
    /\ UNCHANGED open_connections

\* init_db() on a fresh database, and clients without a cookie
InitFresh ==
    /\ help_requests = <<>>
    /\ volunteers = <<>>
    /\ session = [s \in Sessions |-> NoSession]

\* The application restarted over the database and the cookies of an earlier
\* run: init_db() keeps the rows (CREATE TABLE IF NOT EXISTS), and the cookies
\* stay valid because app.secret_key is a fixed string. Here: one registered
\* volunteer, one help request submitted after the registration, and both
\* clients logged in as that volunteer and as admin (the fresh application
\* gets there in five requests: register, admin login, login, admin login,
\* submit).
InitRestart ==
    /\ help_requests = << [id |-> 1, name |-> strip(ValidName), phone |-> ValidPhone,
                           address |-> ValidAddress, category |-> ValidCategory,
                           description |-> <<"F","o","o","d">>, urgency |-> "Medium",
                           solved_status |-> "Unsolved"] >>
    /\ volunteers = << [id |-> 1, name |-> strip(ValidName), phone |-> ValidPhone,
                        email |-> <<"a","@","x">>, last_seen_alert_id |-> 0] >>
    /\ session = [s \in Sessions |->
            [volunteer_email |-> <<"a","@","x">>, volunteer_name |-> strip(ValidName),
             admin_logged_in |-> TRUE, admin_email |-> <<"a","@","x">>,
             admin_name |-> strip(ValidName)]]

InitApp ==
    /\ InitFresh \/ InitRestart
    /\ pc = [s \in Sessions |-> "idle"]
    /\ local = [s \in Sessions |-> NoLocal]
    /\ response = NoResponse
    /\ ops = 0
    /\ open_connections = 0

Init ==
    /\ InitApp
    /\ text_in = <<>>
    /\ urgency_out = ""

----------------------------------------------------------------------------
(* Public routes.                                                          *)

\* GET /
index(s) ==
    /\ Receive(s)
    /\ Return(s, render_template("index.html"))
    /\ UNCHANGED <<store, session, harness>>

\* POST /submit
submit_request(s, form) ==
    /\ Receive(s)
    /\ LET name == strip(form.name)
           phone == strip(form.phone)
           address == strip(form.address)
           category == strip(form.category)
           description == strip(form.description)
       IN  IF ~all(<<name, phone, address, category, description>>)
           THEN /\ Return(s, redirect("index", "error",
                        "All fields are required. Please fill in every field."))
                /\ UNCHANGED help_requests
           ELSE LET urgency == predict_urgency(description) IN
                /\ Len(help_requests) < MaxRequests
                /\ help_requests' = Append(help_requests,
                        [id |-> NextId(help_requests), name |-> name, phone |-> phone,
                         address |-> address, category |-> category,
                         description |-> description, urgency |-> urgency,
                         solved_status |-> "Unsolved"])
                /\ Return(s, [render_template("success.html") EXCEPT !.urgency = urgency])
    /\ UNCHANGED <<volunteers, session, harness>>

\* GET /requests: SELECT * FROM help_requests
view_requests(s) ==
    /\ Receive(s)
    /\ LET requests_list == {help_requests[i].id : i \in 1..Len(help_requests)} IN
       IF session[s].volunteer_email = None
       THEN Return(s, [render_template("requests.html") EXCEPT !.requests = requests_list])
       ELSE Goto(s, "view_requests_volunteer", [NoLocal EXCEPT !.requests = requests_list])
    /\ UNCHANGED <<store, session, harness>>

\* GET /requests, continued: SELECT * FROM volunteers WHERE email = ?
view_requests_volunteer(s) ==
    /\ pc[s] = "view_requests_volunteer"
    /\ LET found == VolunteersWithEmail(session[s].volunteer_email) IN
       IF found = {}
       THEN Return(s, [render_template("requests.html") EXCEPT
                            !.requests = local[s].requests])
       ELSE Goto(s, "view_requests_alerts", [local[s] EXCEPT
                !.email = session[s].volunteer_email,
                !.last_seen = volunteers[CHOOSE i \in found : TRUE].last_seen_alert_id])
    /\ UNCHANGED <<store, session, ops, harness>>

\* GET /requests, continued: SELECT the Emergency requests with id > last_seen
view_requests_alerts(s) ==
    /\ pc[s] = "view_requests_alerts"
    /\ Return(s, [render_template("requests.html") EXCEPT
                    !.requests = local[s].requests,
                    !.volunteer = local[s].email,
                    !.alerts = emergency_alerts(local[s].last_seen)])
    /\ UNCHANGED <<store, session, ops, harness>>

\* POST /dismiss-alerts: SELECT MAX(id) FROM help_requests
dismiss_alerts(s) ==
    /\ Receive(s)
    /\ IF session[s].volunteer_email = None \/ max_id = 0
       THEN Return(s, redirect("view_requests", "", ""))
       ELSE Goto(s, "dismiss_alerts_update", [NoLocal EXCEPT !.max_id = max_id])
    /\ UNCHANGED <<store, session, harness>>

\* POST /dismiss-alerts, continued: UPDATE volunteers SET last_seen_alert_id = ?
\* WHERE email = ?
dismiss_alerts_update(s) ==
    /\ pc[s] = "dismiss_alerts_update"
    /\ volunteers' = [i \in 1..Len(volunteers) |->
            IF volunteers[i].email = session[s].volunteer_email
            THEN [volunteers[i] EXCEPT !.last_seen_alert_id = local[s].max_id]
            ELSE volunteers[i]]
    /\ Return(s, redirect("view_requests", "", ""))
    /\ UNCHANGED <<help_requests, session, ops, harness>>

----------------------------------------------------------------------------
(* Volunteer registration, login, logout.                                  *)

\* volunteer_register requests between their SELECT and their INSERT
RegistrationsInFlight ==
    Cardinality({s \in Sessions :
        pc[s] \in {"volunteer_register_max", "volunteer_register_insert"}})

\* GET, POST /volunteer/register: validation and SELECT id FROM volunteers WHERE email = ?
volunteer_register(s, method, form) ==
    /\ Receive(s)
    /\ IF method # "POST"
       THEN Return(s, render_template("volunteer_register.html"))
       ELSE LET name == strip(form.name)
                phone == strip(form.phone)
                email == strip(form.email)
            IN  IF ~all(<<name, phone, email>>)
                THEN Return(s, redirect("volunteer_register", "error",
                                "All fields are required."))
                ELSE IF VolunteersWithEmail(email) # {}
                THEN Return(s, redirect("volunteer_register", "error",
                                "This email is already registered as a volunteer."))
                ELSE /\ Len(volunteers) + RegistrationsInFlight < MaxVolunteers
                     /\ Goto(s, "volunteer_register_max", [NoLocal EXCEPT
                            !.name = name, !.phone = phone, !.email = email])
    /\ UNCHANGED <<store, session, harness>>

\* POST /volunteer/register, continued: SELECT MAX(id) FROM help_requests
volunteer_register_max(s) ==
    /\ pc[s] = "volunteer_register_max"
    /\ Goto(s, "volunteer_register_insert", [local[s] EXCEPT !.last_seen = max_id])
    /\ UNCHANGED <<store, session, ops, harness>>

\* POST /volunteer/register, continued: INSERT INTO volunteers. The UNIQUE
\* constraint on email raises sqlite3.IntegrityError, which no handler catches.
volunteer_register_insert(s) ==
    /\ pc[s] = "volunteer_register_insert"
    /\ IF VolunteersWithEmail(local[s].email) # {}
       THEN /\ Raise(s, Response("error", "500", "", "sqlite3.IntegrityError"))
            /\ UNCHANGED <<volunteers, session>>
       ELSE /\ volunteers' = Append(volunteers,
                    [id |-> NextId(volunteers), name |-> local[s].name,
                     phone |-> local[s].phone, email |-> local[s].email,
                     last_seen_alert_id |-> local[s].last_seen])
            /\ session' = [session EXCEPT ![s].volunteer_email = local[s].email,
                                          ![s].volunteer_name = local[s].name]
            /\ Return(s, redirect("view_requests", "success",
                        "Welcome! You are now registered as a volunteer."))
    /\ UNCHANGED <<help_requests, ops, harness>>

\* (mutant): the row is looked up ignoring case and the session keeps the
\* email as it was typed
volunteer_login_as_typed(s, method, email_field) ==
    /\ Receive(s)
    /\ IF method # "POST"
       THEN /\ Return(s, render_template("volunteer_login.html"))
            /\ UNCHANGED session
       ELSE LET email == strip(email_field)
                vol == get_volunteer_by_email(email)
            IN  IF email = <<>>
                THEN /\ Return(s, redirect("volunteer_login", "error",
                                "Please enter your email."))
                     /\ UNCHANGED session
                ELSE IF vol = {}
                THEN /\ Return(s, redirect("volunteer_register", "error",
                                "Email not found. Please register first."))
                     /\ UNCHANGED session
                ELSE LET row == volunteers[CHOOSE i \in vol : TRUE] IN
                     /\ session' = [session EXCEPT ![s].volunteer_email = email,
                                                   ![s].volunteer_name = row.name]
                     /\ Return(s, redirect("view_requests", "success", "Welcome back!"))
    /\ UNCHANGED <<store, harness>>

\* GET, POST /volunteer/login
volunteer_login(s, method, email_field) ==
    /\ Receive(s)
    /\ IF method # "POST"
       THEN /\ Return(s, render_template("volunteer_login.html"))
            /\ UNCHANGED session
       ELSE LET email == strip(email_field)
                vol == VolunteersWithEmail(email)
            IN  IF email = <<>>
                THEN /\ Return(s, redirect("volunteer_login", "error",
                                "Please enter your email."))
                     /\ UNCHANGED session
                ELSE IF vol = {}
                THEN /\ Return(s, redirect("volunteer_register", "error",
                                "Email not found. Please register first."))
                     /\ UNCHANGED session
                ELSE LET row == volunteers[CHOOSE i \in vol : TRUE] IN
                     /\ session' = [session EXCEPT ![s].volunteer_email = row.email,
                                                   ![s].volunteer_name = row.name]
                     /\ Return(s, redirect("view_requests", "success", "Welcome back!"))
    /\ UNCHANGED <<store, harness>>

\* (mutant): session.clear()
volunteer_logout_clear(s) ==
    /\ Receive(s)
    /\ session' = [session EXCEPT ![s] = NoSession]
    /\ Return(s, redirect("view_requests", "success", "You have been logged out."))
    /\ UNCHANGED <<store, harness>>

\* GET /volunteer/logout
volunteer_logout(s) ==
    /\ Receive(s)
    /\ session' = [session EXCEPT ![s].volunteer_email = None,
                                  ![s].volunteer_name = None]
    /\ Return(s, redirect("view_requests", "success", "You have been logged out."))
    /\ UNCHANGED <<store, harness>>

----------------------------------------------------------------------------
(* Admin routes.                                                           *)

\* (mutant): the decorator is missing
admin_required_missing(s) ==
    TRUE

\* the admin_required decorator lets the request through
admin_required(s) ==
    session[s].admin_logged_in

AccessDenied ==
    redirect("admin_login", "error", "Access denied. Please log in to the Admin Panel.")

\* GET, POST /admin/login
admin_login(s, method, access_code_field) ==
    /\ Receive(s)
    /\ LET vol_email == session[s].volunteer_email
           access_code == strip(access_code_field)
           volunteer == get_volunteer_by_email(vol_email)
       IN  IF session[s].admin_logged_in
           THEN /\ Return(s, redirect("admin", "", ""))
                /\ UNCHANGED session
           ELSE IF vol_email = None
           THEN /\ Return(s, redirect("volunteer_login", "error",
                    "Please log in as a volunteer first before accessing the Admin Panel."))
                /\ UNCHANGED session
           ELSE IF method # "POST"
           THEN /\ Return(s, [render_template("admin_login.html") EXCEPT
                                !.volunteer = vol_email])
                /\ UNCHANGED session
           ELSE IF access_code = <<>>
           THEN /\ Return(s, redirect("admin_login", "error",
                                "Please enter the access code."))
                /\ UNCHANGED session
           ELSE IF access_code # ADMIN_ACCESS_CODE
           THEN /\ Return(s, redirect("admin_login", "error",
                                "Incorrect access code. Access denied."))
                /\ UNCHANGED session
           ELSE IF volunteer = {}
           THEN /\ Return(s, redirect("admin_login", "error",
                        "Access denied. Your volunteer account was not found."))
                /\ UNCHANGED session
           ELSE /\ session' = [session EXCEPT
                        ![s].admin_logged_in = TRUE,
                        ![s].admin_email = vol_email,
                        ![s].admin_name =
                            volunteers[CHOOSE i \in volunteer :
                                            \A j \in volunteer : i <= j].name]
                /\ Return(s, redirect("admin", "success", "Welcome! Admin access granted."))
    /\ UNCHANGED <<store, harness>>

\* GET /admin/logout
admin_logout(s) ==
    /\ Receive(s)
    /\ session' = [session EXCEPT ![s].admin_logged_in = FALSE,
                                  ![s].admin_email = None,
                                  ![s].admin_name = None]
    /\ Return(s, redirect("index", "success", "You have been logged out from Admin Panel."))
    /\ UNCHANGED <<store, harness>>

\* GET /admin?urgency=&status=: the filtered SELECT * FROM help_requests
admin(s, urgency_filter, status_filter) ==
    /\ Receive(s)
    /\ IF ~admin_required(s)
       THEN Return(s, AccessDenied)
       ELSE Goto(s, "admin_count", [NoLocal EXCEPT
                !.requests = AdminQuery(urgency_filter, status_filter),
                !.urgency_filter = urgency_filter,
                !.status_filter = status_filter])
    /\ UNCHANGED <<store, session, harness>>

\* GET /admin, continued: SELECT COUNT(*) FROM volunteers
admin_count(s) ==
    /\ pc[s] = "admin_count"
    /\ Return(s, [render_template("admin.html") EXCEPT
                    !.requests = local[s].requests,
                    !.urgency_filter = local[s].urgency_filter,
                    !.status_filter = local[s].status_filter,
                    !.volunteer_count = Len(volunteers)])
    /\ UNCHANGED <<store, session, ops, harness>>

\* POST /admin/toggle/<int:request_id>: SELECT solved_status FROM help_requests WHERE id = ?
toggle_status(s, request_id, urgency_filter, status_filter) ==
    /\ Receive(s)
    /\ LET row == RowsWithId(request_id) IN
       IF ~admin_required(s)
       THEN Return(s, AccessDenied)
       ELSE IF row = {}
       THEN Return(s, [redirect("admin", "error", "Request not found.") EXCEPT
                        !.requests = {request_id},
                        !.urgency_filter = urgency_filter,
                        !.status_filter = status_filter])
       ELSE Goto(s, "toggle_status_update", [NoLocal EXCEPT
                !.request_id = request_id,
                !.solved_status = help_requests[CHOOSE i \in row : TRUE].solved_status,
                !.urgency_filter = urgency_filter,
                !.status_filter = status_filter])
    /\ UNCHANGED <<store, session, harness>>

\* (mutant): the UPDATE has no WHERE clause
toggle_status_update_all(s) ==
    /\ pc[s] = "toggle_status_update"
    /\ help_requests' = [i \in 1..Len(help_requests) |->
            [help_requests[i] EXCEPT
                !.solved_status = new_status(local[s].solved_status)]]
    /\ Return(s, [redirect("admin", "success",
                    IF new_status(local[s].solved_status) = "Solved"
                    THEN "Request marked as Solved." ELSE "Request marked as Unsolved.")
                  EXCEPT !.requests = {local[s].request_id},
                         !.urgency_filter = local[s].urgency_filter,
                         !.status_filter = local[s].status_filter])
    /\ UNCHANGED <<volunteers, session, ops, harness>>

\* POST /admin/toggle/<int:request_id>, continued:
\* UPDATE help_requests SET solved_status = ? WHERE id = ?
toggle_status_update(s) ==
    /\ pc[s] = "toggle_status_update"
    /\ help_requests' = [i \in 1..Len(help_requests) |->
            IF help_requests[i].id = local[s].request_id
            THEN [help_requests[i] EXCEPT
                    !.solved_status = new_status(local[s].solved_status)]
            ELSE help_requests[i]]
    /\ Return(s, [redirect("admin", "success",
                    IF new_status(local[s].solved_status) = "Solved"
                    THEN "Request marked as Solved." ELSE "Request marked as Unsolved.")
                  EXCEPT !.requests = {local[s].request_id},
                         !.urgency_filter = local[s].urgency_filter,
                         !.status_filter = local[s].status_filter])
    /\ UNCHANGED <<volunteers, session, ops, harness>>

\* the filters a toggle form carries along (hidden fields urgency_filter, status_filter)
ToggleFilters ==
    { <<"all", "all">>, <<"emergency", "unsolved">> }

----------------------------------------------------------------------------
(* The application: clients send requests; handlers run statement by       *)
(* statement, interleaved with the handlers of other clients' requests.    *)

Next ==
    \E s \in Sessions :
        \/ index(s)
        \/ \E form \in SubmitForms : submit_request(s, form)
        \/ view_requests(s)
        \/ view_requests_volunteer(s)
        \/ view_requests_alerts(s)
        \/ dismiss_alerts(s)
        \/ dismiss_alerts_update(s)
        \/ \E r \in RegisterRequests : volunteer_register(s, r[1], r[2])
        \/ volunteer_register_max(s)
        \/ volunteer_register_insert(s)
        \/ \E r \in LoginRequests : volunteer_login(s, r[1], r[2])
        \/ volunteer_logout(s)
        \/ \E r \in AdminLoginRequests : admin_login(s, r[1], r[2])
        \/ admin_logout(s)
        \/ \E uf \in UrgencyFilters, sf \in StatusFilters : admin(s, uf, sf)
        \/ admin_count(s)
        \/ \E id \in RequestIds, f \in ToggleFilters : toggle_status(s, id, f[1], f[2])
        \/ toggle_status_update(s)

Spec == Init /\ [][Next]_vars

----------------------------------------------------------------------------
(* The classifier on its own: predict_urgency applied to bounded inputs.   *)

Fragments ==
    { <<"U","R","G","E","N","T">>, <<"b","o","n","f","i","r","e","s">>,
      <<"F","o","o","d">>, <<"p","a","i","n","t">>, <<"f","e","n","c","e">>,
      <<" ">>, <<"h","e","a","r","t">>, <<"a","t","t","a","c","k">> }

RECURSIVE Concat(_)
Concat(fragments) ==
    IF fragments = <<>> THEN <<>>
    ELSE Head(fragments) \o Concat(Tail(fragments))

UnconsciousText ==
    <<"P","a","t","i","e","n","t"," ","i","s"," ","u","n","c","o","n","s","c","i","o","u","s"," ","a","f","t","e","r"," ","t","h","e"," ","a","c","c","i","d","e","n","t">>

FoodWaterText ==
    <<"I"," ","n","e","e","d"," ","f","o","o","d"," ","a","n","d"," ","w","a","t","e","r"," ","f","o","r"," ","m","y"," ","f","a","m","i","l","y">>

FenceText ==
    <<"L","o","o","k","i","n","g"," ","f","o","r"," ","v","o","l","u","n","t","e","e","r","s"," ","t","o"," ","h","e","l","p"," ","p","a","i","n","t"," ","a"," ","f","e","n","c","e">>

ClassifierInputs ==
    {UnconsciousText, FoodWaterText, FenceText}
    \cup UNION {{Concat(f) : f \in [1..n -> Fragments]} : n \in 0..MaxFragments}

InitClassifier ==
    /\ InitFresh
    /\ pc = [s \in Sessions |-> "idle"]
    /\ local = [s \in Sessions |-> NoLocal]
    /\ response = NoResponse
    /\ ops = 0
    /\ open_connections = 0
    /\ text_in \in ClassifierInputs
    /\ urgency_out = ""

classify ==
    /\ urgency_out = ""
    /\ urgency_out' = predict_urgency(text_in)
    /\ UNCHANGED <<store, session, pc, local, response, ops, open_connections, text_in>>

SpecClassifier == InitClassifier /\ [][classify]_vars

----------------------------------------------------------------------------
(* Properties of the classifier (checked under SpecClassifier).            *)

\* the letter c as it may be typed: itself, or its upper-case form
Casings(c) ==
    {c} \cup {UpperAlpha[i] : i \in {j \in 1..26 : LowerAlpha[j] = c}}

\* keyword occurs in description at position i, in any casing
OccursAt(keyword, description, i) ==
    /\ i + Len(keyword) - 1 <= Len(description)
    /\ \A j \in 1..Len(keyword) : description[i + j - 1] \in Casings(keyword[j])

HasKeyword(keywords, description) ==
    \E n \in 1..Len(keywords), i \in 1..Len(description) :
        OccursAt(keywords[n], description, i)

Classified == urgency_out # ""

\* C1: a description that contains an emergency keyword, in any casing and also
\* inside a longer word, is classified Emergency, whether or not it contains a
\* medium keyword too.
C1_EmergencyKeywordWins ==
    (Classified /\ HasKeyword(emergency_keywords, text_in)) => urgency_out = "Emergency"

\* C1 witness: "URGENTFood", an upper-case emergency keyword and a medium
\* keyword in one description, has been classified Emergency
C1_Witness ==
    /\ urgency_out = "Emergency"
    /\ text_in = <<"U","R","G","E","N","T","F","o","o","d">>
    /\ HasKeyword(emergency_keywords, text_in)
    /\ HasKeyword(medium_keywords, text_in)

\* C2: a description without emergency keyword is classified Medium if it
\* contains a medium keyword and Low if it contains none (the empty description
\* too); the result is always one of the three values.
C2_MediumElseLow ==
    Classified =>
        /\ urgency_out \in {"Emergency", "Medium", "Low"}
        /\ ~HasKeyword(emergency_keywords, text_in) =>
                urgency_out = (IF HasKeyword(medium_keywords, text_in)
                               THEN "Medium" ELSE "Low")
        /\ text_in = <<>> => urgency_out = "Low"

\* C2 witness: classified Medium on a medium keyword typed with a capital
C2_Witness ==
    /\ urgency_out = "Medium"
    /\ text_in = <<"F","o","o","d">>

\* C3 as claimed: "Looking for volunteers to help paint a fence" is classified Low.
C3_FenceIsLow ==
    (Classified /\ text_in = FenceText) => urgency_out = "Low"

\* C3 as amended: "Looking for volunteers to help paint a fence" is classified
\* Medium, because the medium keyword "pain" is a substring of "paint".
C3_FenceIsMedium ==
    (Classified /\ text_in = FenceText) =>
        /\ urgency_out = "Medium"
        /\ Contains(<<"p","a","i","n">>, lower(text_in))

\* C3 witness: the fence description has been classified, as Medium
C3_Witness ==
    /\ urgency_out = "Medium"
    /\ text_in = FenceText

----------------------------------------------------------------------------
(* Properties of the application (checked under Spec).                     *)

\* the step receives a request of client s and answers it
Answered(s) ==
    /\ ops' = ops + 1
    /\ pc[s] = "idle"
    /\ response'.session = s

\* the step answers client s the way submit_request answers, on either of its
\* paths: redirect(url_for("index")) at app.py:166, success.html at app.py:189
SubmitAnswered(s) ==
    /\ Answered(s)
    /\ response'.target \in {"index", "success.html"}

IsBlank(field) ==
    \A i \in 1..Len(field) : field[i] \in Whitespace

AnyBlank(form) ==
    \/ IsBlank(form.name)
    \/ IsBlank(form.phone)
    \/ IsBlank(form.address)
    \/ IsBlank(form.category)
    \/ IsBlank(form.description)

FieldsRequired == "All fields are required. Please fill in every field."

\* C4: a submit request with any of name, phone, address, category, description
\* blank after trimming leaves both tables as they were and is answered by a
\* redirect to the form with an error.
C4_BlankSubmitRejected ==
    [][\A s \in Sessions : SubmitAnswered(s) =>
        \A form \in SubmitForms :
            (AnyBlank(form) /\ submit_request(s, form)) =>
                /\ help_requests' = help_requests
                /\ volunteers' = volunteers
                /\ response'.kind = "redirect"
                /\ response'.target = "index"
                /\ response'.category = "error"]_vars

\* C4 witness: a submit has been rejected while both tables hold rows
C4_Witness ==
    /\ response.flash = FieldsRequired
    /\ help_requests # <<>>
    /\ volunteers # <<>>

\* the row of help_requests with the given id (there is one)
RowOf(request_id) ==
    CHOOSE i \in 1..Len(help_requests) : help_requests[i].id = request_id

\* C5: a request is created Unsolved; a toggle_status that no other toggle of
\* the same request interleaves with (the stored status is still the one it
\* read) turns Unsolved into Solved and Solved into Unsolved, so that two
\* toggles in succession restore the status.
C5_ToggleFlips ==
    [][/\ Len(help_requests') > Len(help_requests) =>
            help_requests'[Len(help_requests')].solved_status = "Unsolved"
       /\ \A s \in Sessions :
            (/\ toggle_status_update(s)
             /\ help_requests[RowOf(local[s].request_id)].solved_status
                    = local[s].solved_status) =>
                LET i == RowOf(local[s].request_id) IN
                /\ help_requests[i].solved_status = "Unsolved" =>
                        help_requests'[i].solved_status = "Solved"
                /\ help_requests[i].solved_status = "Solved" =>
                        help_requests'[i].solved_status = "Unsolved"]_vars

\* C5 witness: a toggle has turned a Solved request back to Unsolved
C5_Witness ==
    /\ response.flash = "Request marked as Unsolved."
    /\ \E i \in 1..Len(help_requests) :
            /\ help_requests[i].id \in response.requests
            /\ help_requests[i].solved_status = "Unsolved"

\* C6: toggle_status by an admin session with an id that no stored request has
\* reports not-found and leaves both tables as they were.
C6_ToggleUnknownId ==
    [][\A s \in Sessions :
        (ops' = ops + 1 /\ pc[s] = "idle" /\ session[s].admin_logged_in) =>
        \A id \in RequestIds, f \in ToggleFilters :
            (/\ \A i \in 1..Len(help_requests) : help_requests[i].id # id
             /\ toggle_status(s, id, f[1], f[2])) =>
                /\ help_requests' = help_requests
                /\ volunteers' = volunteers
                /\ pc'[s] = "idle"
                /\ response'.session = s
                /\ response'.category = "error"
                /\ response'.flash = "Request not found."]_vars

\* C6 witness: not-found has been reported while both tables hold rows
C6_Witness ==
    /\ response.flash = "Request not found."
    /\ help_requests # <<>>
    /\ volunteers # <<>>

\* C7: no two volunteers have emails that are equal when letter case is ignored.
C7_EmailsUniqueIgnoringCase ==
    \A i, j \in 1..Len(volunteers) :
        i # j => lower(volunteers[i].email) # lower(volunteers[j].email)

\* the new-alert list view_requests computes for volunteers row i
NewAlerts(i) ==
    emergency_alerts(volunteers[i].last_seen_alert_id)

EmergencyCreated ==
    /\ Len(help_requests') > Len(help_requests)
    /\ help_requests'[Len(help_requests')].urgency = "Emergency"

\* C8: when a dismiss_alerts request completes, the volunteer's new-alert list
\* holds no request that existed when the request read MAX(id); and a
\* volunteer's new-alert list that is empty stays empty until an Emergency
\* request is created.
C8_DismissedUntilNewEmergency ==
    [][/\ \A s \in Sessions : dismiss_alerts_update(s) =>
            \A i \in 1..Len(volunteers) :
                volunteers[i].email = session[s].volunteer_email =>
                    \A id \in NewAlerts(i)' : id > local[s].max_id
       /\ \A i \in 1..Len(volunteers) :
            (NewAlerts(i) = {} /\ ~EmergencyCreated) => NewAlerts(i)' = {}]_vars

\* C9: no step lowers a volunteer's last_seen_alert_id.
C9_LastSeenNeverDecreases ==
    [][\A i \in 1..Len(volunteers) :
        volunteers'[i].last_seen_alert_id >= volunteers[i].last_seen_alert_id]_vars

\* C10: the row a registration inserts has last_seen_alert_id equal to the
\* largest help-request id (0 without requests), so the new volunteer's
\* new-alert list is empty right after the registration.
C10_RegisteredAtCurrentMax ==
    [][Len(volunteers') > Len(volunteers) =>
        LET i == Len(volunteers') IN
        /\ volunteers'[i].last_seen_alert_id = max_id
        /\ \A j \in 1..Len(help_requests') :
                help_requests'[j].urgency = "Emergency" =>
                    help_requests'[j].id <= volunteers'[i].last_seen_alert_id]_vars

----------------------------------------------------------------------------
(* Admin access.                                                           *)

\* the shared secret string: "UNPAID"
FixedAccessCode ==
    <<"U","N","P","A","I","D">>

\* the step sets the admin_logged_in flag of client s
FlagSet(s) ==
    /\ ~session[s].admin_logged_in
    /\ session'[s].admin_logged_in

\* the session of client s holds the email of a registered volunteer
HoldsVolunteerEmail(s) ==
    /\ session[s].volunteer_email # None
    /\ \E i \in 1..Len(volunteers) : volunteers[i].email = session[s].volunteer_email

\* C11 as stated: the flag is set only by an admin_login POST of a session
\* holding a registered volunteer's email, the submitted access code being
\* equal to the constant.
C11_FlagSetOnlyByExactCode ==
    [][\A s \in Sessions : FlagSet(s) =>
        /\ HoldsVolunteerEmail(s)
        /\ \E code \in AccessCodeInputs :
                code = FixedAccessCode /\ admin_login(s, "POST", code)]_vars

\* C11: the admin_logged_in flag of a session is set only by an admin_login
\* POST of that session, the session holding a registered volunteer's email
\* and the submitted access code being equal to the constant once leading and
\* trailing whitespace is removed; no other step sets the flag.
C11_FlagSetOnlyByAdminLogin ==
    [][\A s \in Sessions : FlagSet(s) =>
        /\ HoldsVolunteerEmail(s)
        /\ \E code \in AccessCodeInputs :
                strip(code) = FixedAccessCode /\ admin_login(s, "POST", code)]_vars

\* C11 witness: admin access has just been granted to a registered volunteer
C11_Witness ==
    /\ response.flash = "Welcome! Admin access granted."
    /\ \E s \in Sessions :
            /\ response.session = s
            /\ session[s].admin_logged_in
            /\ session[s].admin_email = session[s].volunteer_email
            /\ session[s].volunteer_email # None

\* the step answers client s with the access-denied redirect, hands out no
\* request data and leaves both tables as they were
Denied(s) ==
    /\ pc'[s] = "idle"
    /\ response'.session = s
    /\ response'.kind = "redirect"
    /\ response'.target = "admin_login"
    /\ response'.category = "error"
    /\ response'.flash = "Access denied. Please log in to the Admin Panel."
    /\ response'.requests = {}
    /\ help_requests' = help_requests
    /\ volunteers' = volunteers

\* C12: a request for the admin list view or for toggle_status from a session
\* whose admin_logged_in flag is unset is answered with the access-denied
\* redirect, returns no request data and changes no stored record.
C12_DeniedWhenFlagUnset ==
    [][\A s \in Sessions :
        (ops' = ops + 1 /\ pc[s] = "idle" /\ ~session[s].admin_logged_in) =>
            /\ \A uf \in UrgencyFilters, sf \in StatusFilters :
                    admin(s, uf, sf) => Denied(s)
            /\ \A id \in RequestIds, f \in ToggleFilters :
                    toggle_status(s, id, f[1], f[2]) => Denied(s)]_vars

\* C12 witness: access has been denied to a session without the flag while a
\* help request is stored
C12_Witness ==
    /\ response.flash = "Access denied. Please log in to the Admin Panel."
    /\ \E s \in Sessions : response.session = s /\ ~session[s].admin_logged_in
    /\ help_requests # <<>>

----------------------------------------------------------------------------
(* Stored records.                                                         *)

UrgencyValues == {"Emergency", "Medium", "Low"}

StatusValues == {"Unsolved", "Solved"}

\* C13: every stored help request has urgency in {Emergency, Medium, Low} and
\* solved_status in {Unsolved, Solved}; its urgency is what predict_urgency
\* gives for its description, and no step changes the urgency (or the
\* description it was computed from) of a stored request.
C13_EnumeratedAndUrgencyFixed ==
    /\ [](\A i \in 1..Len(help_requests) :
            /\ help_requests[i].urgency \in UrgencyValues
            /\ help_requests[i].solved_status \in StatusValues
            /\ help_requests[i].urgency = predict_urgency(help_requests[i].description))
    /\ [][\A i \in 1..Len(help_requests) :
            /\ i <= Len(help_requests')
            /\ help_requests'[i].id = help_requests[i].id
            /\ help_requests'[i].urgency = help_requests[i].urgency
            /\ help_requests'[i].description = help_requests[i].description]_vars

\* C13 witness: an Emergency request has been created and then marked Solved
C13_Witness ==
    /\ response.flash = "Request marked as Solved."
    /\ \E i \in 1..Len(help_requests) :
            /\ help_requests[i].id \in response.requests
            /\ help_requests[i].urgency = "Emergency"
            /\ help_requests[i].solved_status = "Solved"

\* C14: no step removes a row of either table; of a stored help request only
\* solved_status changes, only in the UPDATE of a toggle_status request and
\* only for the row with the id that request was given; of a stored volunteer
\* only last_seen_alert_id changes, only in the UPDATE of a dismiss_alerts
\* request and only for the row with the email of that request's session.
C14_OnlyStatusAndWatermarkChange ==
    [][/\ Len(help_requests') >= Len(help_requests)
       /\ Len(volunteers') >= Len(volunteers)
       /\ \A i \in 1..Len(help_requests) :
            /\ [help_requests'[i] EXCEPT !.solved_status = help_requests[i].solved_status]
                    = help_requests[i]
            /\ help_requests'[i].solved_status # help_requests[i].solved_status =>
                    \E s \in Sessions :
                        /\ toggle_status_update(s)
                        /\ local[s].request_id = help_requests[i].id
       /\ \A i \in 1..Len(volunteers) :
            /\ [volunteers'[i] EXCEPT !.last_seen_alert_id = volunteers[i].last_seen_alert_id]
                    = volunteers[i]
            /\ volunteers'[i].last_seen_alert_id # volunteers[i].last_seen_alert_id =>
                    \E s \in Sessions :
                        /\ dismiss_alerts_update(s)
                        /\ session[s].volunteer_email = volunteers[i].email]_vars

\* C14 witness: a dismiss_alerts has just written its volunteer's watermark,
\* a toggle_status has marked one request Solved, and another request is
\* still as it was created
C14_Witness ==
    /\ response.kind = "redirect"
    /\ response.target = "view_requests"
    /\ response.flash = ""
    /\ \E i \in 1..Len(volunteers) :
            /\ volunteers[i].email = session[response.session].volunteer_email
            /\ volunteers[i].last_seen_alert_id = 2
    /\ \E i, j \in 1..Len(help_requests) :
            /\ help_requests[i].solved_status = "Solved"
            /\ help_requests[j].solved_status = "Unsolved"

----------------------------------------------------------------------------
(* The admin list view.                                                    *)

KeptByUrgency(row, urgency_filter) ==
    IF urgency_filter = "all" THEN TRUE ELSE row.urgency = "Emergency"

KeptByStatus(row, status_filter) ==
    CASE status_filter = "all" -> TRUE
      [] status_filter = "solved" -> row.solved_status = "Solved"
      [] status_filter = "unsolved" -> row.solved_status = "Unsolved"

\* the ids of the stored help requests that both filters keep
Listed(urgency_filter, status_filter) ==
    {help_requests[i].id : i \in {j \in 1..Len(help_requests) :
        /\ KeptByUrgency(help_requests[j], urgency_filter)
        /\ KeptByStatus(help_requests[j], status_filter)}}

\* C15: the SELECT of the admin list view reads exactly the stored help
\* requests that both filters keep (urgency=emergency keeps the Emergency
\* ones, status=solved and status=unsolved keep the ones with that status,
\* all keeps every one), and the view returns that list with its filters.
C15_AdminListFiltered ==
    [][\A s \in Sessions :
        /\ (ops' = ops + 1 /\ pc[s] = "idle" /\ session[s].admin_logged_in) =>
                \A uf \in UrgencyFilters, sf \in StatusFilters :
                    admin(s, uf, sf) =>
                        /\ pc'[s] = "admin_count"
                        /\ local'[s].requests = Listed(uf, sf)
                        /\ local'[s].urgency_filter = uf
                        /\ local'[s].status_filter = sf
        /\ admin_count(s) =>
                /\ response'.session = s
                /\ response'.kind = "render"
                /\ response'.target = "admin.html"
                /\ response'.requests = local[s].requests
                /\ response'.urgency_filter = local[s].urgency_filter
                /\ response'.status_filter = local[s].status_filter]_vars

\* C15 witness: the view has been returned with both filters given, listing
\* one request and leaving out one that only the status filter keeps
C15_Witness ==
    /\ response.target = "admin.html"
    /\ response.urgency_filter = "emergency"
    /\ response.status_filter = "unsolved"
    /\ response.requests # {}
    /\ \E i \in 1..Len(help_requests) :
            /\ help_requests[i].id \notin response.requests
            /\ help_requests[i].solved_status = "Unsolved"
            /\ help_requests[i].urgency # "Emergency"

----------------------------------------------------------------------------
(* Concurrency and connections.                                            *)

\* C16: every write is based on the current store: when toggle_status,
\* dismiss_alerts or a volunteer registration executes its UPDATE or INSERT,
\* the rows it read earlier in the same request are still as it read them
\* (no write of another request has come in between), so that two concurrent
\* toggle_status requests on one id leave the status as it was.
C16_WritesBasedOnCurrentStore ==
    [][\A s \in Sessions :
        /\ toggle_status_update(s) =>
                help_requests[RowOf(local[s].request_id)].solved_status
                    = local[s].solved_status
        /\ dismiss_alerts_update(s) => local[s].max_id = max_id
        /\ volunteer_register_insert(s) =>
                /\ VolunteersWithEmail(local[s].email) = {}
                /\ local[s].last_seen = max_id]_vars

\* C17: every connection a request opened is closed when the request has been
\* answered: the open connections are those of the requests in flight.
C17_ConnectionsClosed ==
    open_connections = Cardinality({s \in Sessions : pc[s] # "idle"})

----------------------------------------------------------------------------
(* Sessions.                                                               *)

\* C18: a session's volunteer_email, when set, is equal character by
\* character to the email of a stored volunteer; hence the volunteer SELECT of
\* view_requests finds that row and goes on to the alert query, and the UPDATE
\* of dismiss_alerts has a row to write.
C18_SessionEmailStored ==
    /\ [](\A s \in Sessions : session[s].volunteer_email # None => HoldsVolunteerEmail(s))
    /\ [][\A s \in Sessions :
            /\ view_requests_volunteer(s) =>
                    /\ pc'[s] = "view_requests_alerts"
                    /\ local'[s].email = session[s].volunteer_email
            /\ dismiss_alerts_update(s) =>
                    \E i \in 1..Len(volunteers) :
                        /\ volunteers[i].email = session[s].volunteer_email
                        /\ volunteers'[i].last_seen_alert_id = local[s].max_id]_vars

\* C18 witness: with two volunteers stored, view_requests has found the row of
\* its session's volunteer and is about to query that volunteer's alerts
C18_Witness ==
    /\ Len(volunteers) = 2
    /\ \E s \in Sessions :
            /\ pc[s] = "view_requests_alerts"
            /\ local[s].email = session[s].volunteer_email
            /\ session[s].volunteer_email # None

\* the step clears the admin_logged_in flag of client s
FlagCleared(s) ==
    /\ session[s].admin_logged_in
    /\ ~session'[s].admin_logged_in

\* C19: a set admin_logged_in flag is cleared only by an admin_logout of that
\* session; volunteer_logout leaves it as it is, and a session with the flag
\* set and no volunteer_email gets the admin list view and has its
\* toggle_status requests carried out.
C19_FlagClearedOnlyByAdminLogout ==
    [][\A s \in Sessions :
        /\ FlagCleared(s) => admin_logout(s)
        /\ volunteer_logout(s) =>
                session'[s].admin_logged_in = session[s].admin_logged_in
        /\ (/\ ops' = ops + 1
            /\ pc[s] = "idle"
            /\ session[s].admin_logged_in
            /\ session[s].volunteer_email = None) =>
                /\ \A uf \in UrgencyFilters, sf \in StatusFilters :
                        admin(s, uf, sf) =>
                            /\ pc'[s] = "admin_count"
                            /\ local'[s].requests = Listed(uf, sf)
                /\ \A id \in RequestIds, f \in ToggleFilters :
                        toggle_status(s, id, f[1], f[2]) =>
                            IF \E i \in 1..Len(help_requests) : help_requests[i].id = id
                            THEN pc'[s] = "toggle_status_update"
                            ELSE response'.flash = "Request not found."]_vars

\* C19 witness: a session that has logged out as volunteer and still has the
\* flag has just marked a request Solved
C19_Witness ==
    /\ response.flash = "Request marked as Solved."
    /\ \E s \in Sessions :
            /\ response.session = s
            /\ session[s].volunteer_email = None
            /\ session[s].admin_logged_in
    /\ \E i \in 1..Len(help_requests) :
            /\ help_requests[i].id \in response.requests
            /\ help_requests[i].solved_status = "Solved"

====
